---- MODULE Spec2Model ----
(***************************************************************************)
(* Healthmate-Frontend deployment scripts.                                 *)
(*                                                                         *)
(*   SpecUpload    scripts/upload.py   S3Uploader.upload: bucket check,    *)
(*                 enumeration, thread pool fan-out, collection, report.   *)
(*   SpecConfig    scripts/config.py   DeploymentConfig.from_cloudformation*)
(*                 retry loop and the environment-name validation of the   *)
(*                 four entry points that take an environment.             *)
(*   SpecResolve   cdk/app.py and scripts/config.py: from_cloudformation   *)
(*                 answered from the stacks the CDK app has deployed.      *)
(*   SpecOptimize  scripts/invalidate.py  optimize_invalidation_paths.     *)
(*   SpecInvalidate scripts/invalidate.py CloudFrontInvalidator: invalidate,*)
(*                 create_invalidation, wait_for_invalidation and the CDN. *)
(*   SpecInvalidateFair  SpecInvalidate with the calling thread of the     *)
(*                 wait loop kept running.                                 *)
(*   SpecDeploy    scripts/deploy.py   HealthmateFrontendDeployer.deploy,  *)
(*                 composed with the steps of the uploader it calls.       *)
(*   SpecReupload  scripts/upload.py   upload() called repeatedly against a*)
(*                 store that accepts every request.                       *)
(***************************************************************************)
EXTENDS Integers, Sequences, FiniteSets, TLC

VARIABLES
    \* ---- S3Uploader.upload (scripts/upload.py) ----
    up_pc,              \* position of the calling (coordinating) thread
    max_workers,        \* argument of upload()/upload_files()
    head_bucket_calls,  \* head-bucket requests issued in this run
    head_bucket,        \* how the head-bucket request of this run ended
    files_to_upload,    \* the enumerated tasks, in submission order
    submitted,          \* number of tasks handed to executor.submit so far
    queue,              \* the executor's FIFO work queue
    running,            \* tasks a pool thread is executing upload_file on
    finished,           \* task -> outcome of its future, once done
    collected,          \* tasks whose future the as_completed loop has consumed
    results,            \* the 'results' dict of upload_files
    attempted,          \* tasks on which upload_file has been started
    put_calls,          \* task -> number of put-object requests issued
    upload_result,      \* the dict upload() returned
    dist,               \* the build directory: whether it exists and the files in it
    bucket,             \* the S3 bucket: key -> object
    run,                \* number of upload() calls made so far
    first_bucket,       \* the bucket as the first run left it
    valid_workers,      \* every upload() call so far had max_workers >= 1
    \* ---- DeploymentConfig and the environment checks (scripts/config.py, cdk/) ----
    cfg_pc,             \* "idle", "attempt" (inside the retry loop), "returned", "raised"
    cfg_fn,             \* the entry point that was called
    cfg_env,            \* its environment argument
    attempt,            \* loop variable of from_cloudformation (0-based)
    retry_delay,        \* seconds the next sleep will take
    slept,              \* the time.sleep() calls made, in order
    describe_calls,     \* describe_stacks requests issued by this call
    succeeded_at,       \* number of the request that resolved the target, 0 if none
    first_error,        \* error of the first failed attempt
    last_error,         \* error of the latest failed attempt
    ext,                \* other external operations of this call, counted
    cfg_outcome,        \* what the call returned or raised
    \* ---- CloudFrontInvalidator.optimize_invalidation_paths (scripts/invalidate.py) ----
    opt_pc,             \* "input" before the call, "done" after
    paths,              \* the argument
    optimized,          \* the returned list
    \* ---- CloudFrontInvalidator (scripts/invalidate.py) and the CDN it talks to ----
    inv_pc,             \* "idle", "get_distribution", "create", "wait", "returned", "raised"
    inv_fn,             \* the public method that was called
    inv_paths,          \* the paths argument: [is_none, items]
    inv_wait,           \* the wait argument of invalidate()
    timeout,            \* the timeout argument of wait_for_invalidation
    cdn_distribution,   \* how the CDN answers get-distribution
    cdn_create,         \* how the CDN answers create-invalidation
    cdn_invalidation,   \* how the CDN answers get-invalidation at this moment
    requests,           \* the requests sent to the CDN control API, in order
    now,                \* time.time(), in seconds
    start_time,         \* start_time of wait_for_invalidation
    polls,              \* calls of get_invalidation_status made by the wait loop
    last_status,        \* status the latest poll returned, "none" if none did
    timed_out,          \* the wait loop ended in its "Timeout reached" branch
    inv_result,         \* the result dict invalidate() is building
    inv_outcome,        \* what the call returned or raised
    \* ---- HealthmateFrontendDeployer.deploy (scripts/deploy.py) ----
    dp_pc,              \* "idle", "prerequisites", "build", "upload", "uploading", "returned", "raised"
    skip_build,         \* the skip_build argument
    started,            \* the steps started, in order
    ended,              \* the steps that ended, in order, each with how it ended
    dp_results,         \* the results dict of deploy()
    dp_outcome,         \* what deploy() returned or raised
    \* ---- CloudFormation, as the CDK app leaves it (cdk/app.py) ----
    cf_stacks           \* the hosting stacks the app has deployed

upVars == << up_pc, max_workers, head_bucket_calls, head_bucket, files_to_upload, submitted,
             queue, running, finished, collected, results, attempted, put_calls,
             upload_result, dist, bucket, run, first_bucket, valid_workers >>

cfgVars == << cfg_pc, cfg_fn, cfg_env, attempt, retry_delay, slept, describe_calls,
              succeeded_at, first_error, last_error, ext, cfg_outcome, cf_stacks >>

optVars == << opt_pc, paths, optimized >>

invVars == << inv_pc, inv_fn, inv_paths, inv_wait, timeout, cdn_distribution, cdn_create,
              cdn_invalidation, requests, now, start_time, polls, last_status, timed_out,
              inv_result, inv_outcome >>

dpVars == << dp_pc, skip_build, started, ended, dp_results, dp_outcome >>

vars == << upVars, cfgVars, optVars, invVars, dpVars >>

\* what the steps of one script leave alone
NotUpload     == << cfgVars, optVars, invVars, dpVars >>
NotConfig     == << upVars, optVars, invVars, dpVars >>
NotOptimize   == << upVars, cfgVars, invVars, dpVars >>
NotInvalidate == << upVars, cfgVars, optVars, dpVars >>

----------------------------------------------------------------------------
(* Bounds of the model *)

\* number of regular files the build directory can hold
MaxFiles == 3
\* largest explicit worker count a caller passes (besides the default)
MaxWorkers == 2
\* number of upload() calls made on one uploader
MaxRuns == 2

(* Program constants *)

\* upload(self, max_workers: int = 5)
DefaultMaxWorkers == 5

----------------------------------------------------------------------------
(* Helpers *)

Range(s) == { s[i] : i \in 1..Len(s) }

RECURSIVE AscendingSeq(_)
\* the members of a finite set of integers as an ascending sequence
AscendingSeq(S) ==
    IF S = {} THEN << >>
    ELSE LET m == CHOOSE x \in S : \A y \in S : x <= y
         IN  << m >> \o AscendingSeq(S \ {m})

----------------------------------------------------------------------------
(* S3Uploader -- scripts/upload.py *)

\* The regular files a build directory can contain; file k has s3_key k.
Files == 1..MaxFiles

\* st_size of file k (file 1 is an empty file)
FileSize(k) == k - 1

\* What head_bucket can do: succeed, or raise ClientError 404 / 403 / another
\* code, or raise some other exception.
HeadBucketOutcomes == { "ok", "404", "403", "ClientError", "Exception" }

\* What one execution of upload_file can meet.
\*   ok           put-object accepted
\*   ClientError  put-object raises ClientError with Error.Code and Error.Message
\*   Exception    put-object raises another exception (network, S3UploadFailedError)
\*   LocalError   stat()/hashing of the local file raises before any request
\*   Raise        the handler of ClientError itself raises (the error response
\*                lacks Error.Message), so the exception leaves upload_file
UploadFileOutcomes == { "ok", "ClientError", "Exception", "LocalError", "Raise" }

\* outcomes in which s3_client.upload_file has been called
PutIssued(o) == o \in { "ok", "ClientError", "Exception", "Raise" }

\* upload_file(local_path, s3_key): what the future of the task ends with.
upload_file(key, o) ==
    CASE o = "ok" ->
           [ raised |-> FALSE,
             value  |-> [ success |-> TRUE, s3_key |-> key, size |-> FileSize(key) ] ]
      [] o = "ClientError" ->
           [ raised |-> FALSE,
             value  |-> [ success |-> FALSE, s3_key |-> key, error |-> "AccessDenied: denied" ] ]
      [] o = "Exception" ->
           [ raised |-> FALSE,
             value  |-> [ success |-> FALSE, s3_key |-> key, error |-> "connection reset" ] ]
      [] o = "LocalError" ->
           [ raised |-> FALSE,
             value  |-> [ success |-> FALSE, s3_key |-> key, error |-> "No such file" ] ]
      [] o = "Raise" ->
           [ raised |-> TRUE, error |-> "KeyError: Message" ]

NotReturned == [ pending |-> TRUE ]
NoResults   == [ unset |-> TRUE ]

\* The content of regular file k of the build directory.
FileBody(k) == << "body", k >>

\* The object upload_file stores for file k: the body of the file and the
\* metadata computed from the file (ExtraArgs).
s3_object(k) ==
    [ Body |-> FileBody(k),
      CacheControl |-> "no-cache, no-store, must-revalidate",
      Metadata |-> [ original_name |-> k, upload_hash |-> << "md5", FileBody(k) >> ] ]

\* no object under the key
Absent == [ absent |-> TRUE ]

\* an object an earlier deployment of another build left under the key
Stale ==
    [ Body |-> << "body", 0 >>,
      CacheControl |-> "no-cache, no-store, must-revalidate",
      Metadata |-> [ original_name |-> 0, upload_hash |-> << "md5", << "body", 0 >> >> ] ]

\* Faulty variant: the put appends the body to the object already stored.
put_object_appending(b, k) ==
    IF b[k] = Absent THEN [ b EXCEPT ![k] = s3_object(k) ]
    ELSE [ b EXCEPT ![k] = [ s3_object(k) EXCEPT !.Body = b[k].Body \o FileBody(k) ] ]

\* s3_client.upload_file(local_path, bucket_name, s3_key, ExtraArgs) accepted:
\* the object under the key is replaced.
put_object(b, k) == [ b EXCEPT ![k] = s3_object(k) ]

\* The build directory: missing, or holding some regular files (possibly none).
DistStates ==
    { [ exists |-> FALSE, files |-> {} ] } \cup { [ exists |-> TRUE, files |-> F ] : F \in SUBSET Files }

\* an uploader on which upload() has not been called
UpIdle ==
    /\ up_pc = "idle"
    /\ dist \in DistStates
    /\ run = 0
    /\ first_bucket = NoResults
    /\ valid_workers = TRUE
    /\ max_workers = DefaultMaxWorkers
    /\ head_bucket_calls = 0
    /\ head_bucket = "none"
    /\ files_to_upload = << >>
    /\ submitted = 0
    /\ queue = << >>
    /\ running = {}
    /\ finished = << >>
    /\ collected = {}
    /\ results = NoResults
    /\ attempted = {}
    /\ put_calls = [ k \in Files |-> 0 ]
    /\ upload_result = NotReturned

\* an uploader that has not run, next to an empty bucket
UpInit ==
    /\ UpIdle
    /\ bucket = [ k \in Files |-> Absent ]

\* no uploader is in use
UpUnused ==
    /\ UpInit
    /\ ~ dist.exists

\* the max_workers arguments tried
WorkerCounts == (0..MaxWorkers) \cup { DefaultMaxWorkers }

\* upload(max_workers): the caller passes a worker count or takes the default.
upload_call ==
    /\ up_pc = "idle"
    /\ \E mw \in WorkerCounts :
         /\ max_workers' = mw
         /\ valid_workers' = (mw >= 1)
    /\ run' = run + 1
    /\ up_pc' = "verify"
    /\ UNCHANGED << head_bucket_calls, head_bucket, files_to_upload, submitted, queue, running,
                    finished, collected, results, attempted, put_calls, upload_result >>
    /\ UNCHANGED << dist, bucket, first_bucket >>
    /\ UNCHANGED NotUpload

\* Faulty variant: a 403 answer (the bucket exists) is taken as accessible.
bucket_accessible_unless_missing(o) == o \in { "ok", "403" }

\* verify_bucket_exists() returns True only when head_bucket raised nothing
bucket_accessible(o) == o = "ok"

\* upload_files, first step: verify_bucket_exists() issues head-bucket; anything
\* but success makes upload_files raise UploadError, which upload() turns into
\* a result without 'results'.
verify_bucket_exists ==
    /\ up_pc = "verify"
    /\ head_bucket_calls' = head_bucket_calls + 1
    /\ \E o \in HeadBucketOutcomes :
         /\ head_bucket' = o
         /\ IF bucket_accessible(o)
            THEN /\ up_pc' = "enumerate"
                 /\ UNCHANGED upload_result
            ELSE /\ up_pc' = "returned"
                 /\ upload_result' = [ success |-> FALSE, error |-> "Cannot access S3 bucket" ]
    /\ UNCHANGED << max_workers, files_to_upload, submitted, queue, running,
                    finished, collected, results, attempted, put_calls >>
    /\ UNCHANGED << dist, bucket, run, first_bucket, valid_workers >>
    /\ UNCHANGED NotUpload

\* Faulty variant: an empty list of tasks is accepted.
no_files_to_upload_accepted(fs) == FALSE

\* "if not files_to_upload": the list get_files_to_upload() returned is empty
no_files_to_upload(fs) == fs = << >>

\* upload_files, second step: get_files_to_upload(), the empty check, the
\* initial 'results' dict and the construction of the ThreadPoolExecutor
\* (which raises ValueError for max_workers <= 0).
get_files_to_upload ==
    /\ up_pc = "enumerate"
    /\ LET dist_exists == dist.exists
           present == dist.files
       IN
         IF ~dist_exists
         THEN /\ up_pc' = "returned"
              /\ upload_result' = [ success |-> FALSE, error |-> "Build directory not found" ]
              /\ UNCHANGED << files_to_upload, results >>
         ELSE IF no_files_to_upload(AscendingSeq(present))
         THEN /\ up_pc' = "returned"
              /\ upload_result' = [ success |-> FALSE, error |-> "No files found to upload" ]
              /\ UNCHANGED << files_to_upload, results >>
         ELSE /\ files_to_upload' = AscendingSeq(present)
              /\ results' = [ successful_uploads |-> << >>,
                              failed_uploads     |-> << >>,
                              total_files        |-> Cardinality(present),
                              total_size         |-> 0 ]
              /\ IF max_workers <= 0
                 THEN /\ up_pc' = "returned"
                      /\ upload_result' =
                           [ success |-> FALSE,
                             error   |-> "Unexpected error: max_workers must be greater than 0" ]
                 ELSE /\ up_pc' = IF present = {} THEN "collect" ELSE "submit"
                      /\ UNCHANGED upload_result
    /\ UNCHANGED << max_workers, head_bucket_calls, head_bucket, submitted, queue, running,
                    finished, collected, attempted, put_calls >>
    /\ UNCHANGED << dist, bucket, run, first_bucket, valid_workers >>
    /\ UNCHANGED NotUpload

\* executor.submit(self.upload_file, local_path, s3_key) for the next task;
\* after the last one the calling thread enters the as_completed loop.
submit ==
    /\ up_pc = "submit"
    /\ submitted < Len(files_to_upload)
    /\ submitted' = submitted + 1
    /\ queue' = Append(queue, files_to_upload[submitted + 1])
    /\ up_pc' = IF submitted + 1 = Len(files_to_upload) THEN "collect" ELSE "submit"
    /\ UNCHANGED << max_workers, head_bucket_calls, head_bucket, files_to_upload, running,
                    finished, collected, results, attempted, put_calls, upload_result >>
    /\ UNCHANGED << dist, bucket, run, first_bucket, valid_workers >>
    /\ UNCHANGED NotUpload

\* Faulty variant: a thread per submitted task, no bound.
pool_unbounded == TRUE

\* the pool may run another work item: it has fewer than max_workers threads busy
pool_has_idle_thread == Cardinality(running) < max_workers

\* A pool thread takes the oldest queued work item and starts upload_file on it.
worker_start ==
    /\ queue # << >>
    /\ pool_has_idle_thread
    /\ running' = running \cup { Head(queue) }
    /\ attempted' = attempted \cup { Head(queue) }
    /\ queue' = Tail(queue)
    /\ UNCHANGED << up_pc, max_workers, head_bucket_calls, head_bucket, files_to_upload, submitted,
                    finished, collected, results, put_calls, upload_result >>
    /\ UNCHANGED << dist, bucket, run, first_bucket, valid_workers >>
    /\ UNCHANGED NotUpload

\* Faulty variant: a failed upload shuts the pool down, cancelling the work
\* items still queued (their futures end with CancelledError).
worker_finish_cancels_queued(k) ==
    /\ k \in running
    /\ \E o \in UploadFileOutcomes :
         /\ put_calls' = [ put_calls EXCEPT ![k] = @ + (IF PutIssued(o) THEN 1 ELSE 0) ]
         /\ bucket' = IF o = "ok" THEN put_object(bucket, k) ELSE bucket
         /\ IF o = "ok"
            THEN /\ finished' = finished @@ (k :> upload_file(k, o))
                 /\ UNCHANGED queue
            ELSE /\ finished' = finished @@ (k :> upload_file(k, o))
                                 @@ [ q \in Range(queue) |->
                                        [ raised |-> TRUE, error |-> "CancelledError" ] ]
                 /\ queue' = << >>
    /\ running' = running \ { k }
    /\ UNCHANGED << up_pc, max_workers, head_bucket_calls, head_bucket, files_to_upload,
                    submitted, collected, results, attempted, upload_result >>
    /\ UNCHANGED << dist, run, first_bucket, valid_workers >>
    /\ UNCHANGED NotUpload

\* Faulty variant: the pool thread adds its outcome to the shared 'results'
\* dict itself, at the end of upload_file.
worker_finish_writes_report(k) ==
    /\ k \in running
    /\ \E o \in UploadFileOutcomes :
         LET r == upload_file(k, o)
         IN  /\ finished' = finished @@ (k :> r)
             /\ put_calls' = [ put_calls EXCEPT ![k] = @ + (IF PutIssued(o) THEN 1 ELSE 0) ]
             /\ bucket' = IF o = "ok" THEN put_object(bucket, k) ELSE bucket
             /\ results' =
                  IF r.raised THEN results
                  ELSE IF r.value.success
                  THEN [ results EXCEPT !.successful_uploads = Append(@, r.value),
                                        !.total_size = @ + r.value.size ]
                  ELSE [ results EXCEPT !.failed_uploads = Append(@, r.value) ]
    /\ running' = running \ { k }
    /\ UNCHANGED << up_pc, max_workers, head_bucket_calls, head_bucket, files_to_upload, submitted,
                    queue, collected, attempted, upload_result >>
    /\ UNCHANGED << dist, run, first_bucket, valid_workers >>
    /\ UNCHANGED NotUpload

\* Faulty variant: a task whose upload failed is put back on the work queue.
worker_finish_requeues_failed(k) ==
    /\ k \in running
    /\ \E o \in UploadFileOutcomes :
         /\ put_calls' = [ put_calls EXCEPT ![k] = @ + (IF PutIssued(o) THEN 1 ELSE 0) ]
         /\ bucket' = IF o = "ok" THEN put_object(bucket, k) ELSE bucket
         /\ IF o = "ok"
            THEN /\ finished' = finished @@ (k :> upload_file(k, o))
                 /\ UNCHANGED queue
            ELSE /\ queue' = Append(queue, k)
                 /\ UNCHANGED finished
    /\ running' = running \ { k }
    /\ UNCHANGED << up_pc, max_workers, head_bucket_calls, head_bucket, files_to_upload,
                    submitted, collected, results, attempted, upload_result >>
    /\ UNCHANGED << dist, run, first_bucket, valid_workers >>
    /\ UNCHANGED NotUpload

\* upload_file on task k ends; its future becomes done.
worker_finish(k) ==
    /\ k \in running
    /\ \E o \in UploadFileOutcomes :
         /\ finished' = finished @@ (k :> upload_file(k, o))
         /\ put_calls' = [ put_calls EXCEPT ![k] = @ + (IF PutIssued(o) THEN 1 ELSE 0) ]
         /\ bucket' = IF o = "ok" THEN put_object(bucket, k) ELSE bucket
    /\ running' = running \ { k }
    /\ UNCHANGED << up_pc, max_workers, head_bucket_calls, head_bucket, files_to_upload, submitted,
                    queue, collected, results, attempted, upload_result >>
    /\ UNCHANGED << dist, run, first_bucket, valid_workers >>
    /\ UNCHANGED NotUpload

\* Faulty variant: the loop body without its "except Exception" branch records
\* nothing for a future that raised.
collect_outcome_drops_raised(k, res) ==
    IF finished[k].raised
    THEN res
    ELSE IF finished[k].value.success
    THEN [ res EXCEPT !.successful_uploads = Append(@, finished[k].value),
                      !.total_size = @ + finished[k].value.size ]
    ELSE [ res EXCEPT !.failed_uploads = Append(@, finished[k].value) ]

\* Faulty variant: the size of a file whose upload failed is added as well.
collect_outcome_counts_failed(k, res) ==
    IF finished[k].raised
    THEN [ res EXCEPT !.failed_uploads =
             Append(@, [ success |-> FALSE, s3_key |-> k, error |-> finished[k].error ]),
                      !.total_size = @ + FileSize(k) ]
    ELSE IF finished[k].value.success
    THEN [ res EXCEPT !.successful_uploads = Append(@, finished[k].value),
                      !.total_size = @ + finished[k].value.size ]
    ELSE [ res EXCEPT !.failed_uploads = Append(@, finished[k].value),
                      !.total_size = @ + FileSize(k) ]

\* One iteration of "for future in as_completed(future_to_file)": the record the
\* loop body adds for the future of task k.
collect_outcome(k, res) ==
    IF finished[k].raised
    THEN [ res EXCEPT !.failed_uploads =
             Append(@, [ success |-> FALSE, s3_key |-> k, error |-> finished[k].error ]) ]
    ELSE IF finished[k].value.success
    THEN [ res EXCEPT !.successful_uploads = Append(@, finished[k].value),
                      !.total_size = @ + finished[k].value.size ]
    ELSE [ res EXCEPT !.failed_uploads = Append(@, finished[k].value) ]

collect(k) ==
    /\ up_pc = "collect"
    /\ k \in DOMAIN finished
    /\ k \notin collected
    /\ collected' = collected \cup { k }
    /\ results' = collect_outcome(k, results)
    /\ UNCHANGED << up_pc, max_workers, head_bucket_calls, head_bucket, files_to_upload, submitted,
                    queue, running, finished, attempted, put_calls, upload_result >>
    /\ UNCHANGED << dist, bucket, run, first_bucket, valid_workers >>
    /\ UNCHANGED NotUpload

\* "Calculate statistics": the counts upload_files adds before returning.
statistics(res) ==
    res @@ [ success_count |-> Len(res.successful_uploads),
             failure_count |-> Len(res.failed_uploads) ]

\* Faulty variant: upload() reports success whatever failure_count is.
upload_ignores_failures(res) == [ success |-> TRUE, results |-> res ]

\* Faulty variant: on partial failure upload() returns the error alone.
upload_drops_report(res) ==
    IF res.failure_count > 0
    THEN [ success |-> FALSE, error |-> "files failed to upload" ]
    ELSE [ success |-> TRUE, results |-> res ]

\* upload(): what it makes of the report upload_files returned.
upload(res) ==
    IF res.failure_count > 0
    THEN [ success |-> FALSE, results |-> res, error |-> "files failed to upload" ]
    ELSE [ success |-> TRUE, results |-> res ]

\* as_completed is exhausted, the pool is shut down, upload_files computes the
\* statistics and returns, and upload() returns its result.
upload_files_return ==
    /\ up_pc = "collect"
    /\ collected = Range(files_to_upload)
    /\ results' = statistics(results)
    /\ upload_result' = upload(statistics(results))
    /\ up_pc' = "returned"
    /\ UNCHANGED << max_workers, head_bucket_calls, head_bucket, files_to_upload, submitted,
                    queue, running, finished, collected, attempted, put_calls >>
    /\ UNCHANGED << dist, bucket, run, first_bucket, valid_workers >>
    /\ UNCHANGED NotUpload

\* upload() is called once more after it returned: the state of the previous
\* call is gone, the build directory and the bucket are as they were left.
upload_again ==
    /\ up_pc = "returned"
    /\ run < MaxRuns
    /\ \E mw \in WorkerCounts :
         /\ max_workers' = mw
         /\ valid_workers' = (valid_workers /\ mw >= 1)
    /\ run' = run + 1
    /\ first_bucket' = IF run = 1 THEN bucket ELSE first_bucket
    /\ up_pc' = "verify"
    /\ head_bucket_calls' = 0
    /\ head_bucket' = "none"
    /\ files_to_upload' = << >>
    /\ submitted' = 0
    /\ queue' = << >>
    /\ running' = {}
    /\ finished' = << >>
    /\ collected' = {}
    /\ results' = NoResults
    /\ attempted' = {}
    /\ put_calls' = [ k \in Files |-> 0 ]
    /\ upload_result' = NotReturned
    /\ UNCHANGED << dist, bucket >>
    /\ UNCHANGED NotUpload

\* the steps of one upload() call
UploadSteps ==
    \/ verify_bucket_exists
    \/ get_files_to_upload
    \/ submit
    \/ worker_start
    \/ \E k \in Files : worker_finish(k)
    \/ \E k \in Files : collect(k)
    \/ upload_files_return

UpNext ==
    \/ upload_call
    \/ UploadSteps

\* A store that accepts every request and local files that can be read: the
\* head-bucket request succeeds and every upload_file ends with its put
\* accepted.
AcceptingStore ==
    /\ head_bucket \in { "none", "ok" }
    /\ \A k \in DOMAIN finished : finished[k] = upload_file(k, "ok")

\* the bucket before the first run: under each key nothing, or a stale object
InitialBuckets == [ Files -> { Absent, Stale } ]

\* an uploader that has not run, next to a bucket earlier deployments have used
ReInit ==
    /\ UpIdle
    /\ bucket \in InitialBuckets

\* upload() called repeatedly against an accepting store
ReNext ==
    \/ upload_call /\ AcceptingStore'
    \/ verify_bucket_exists /\ AcceptingStore'
    \/ get_files_to_upload /\ AcceptingStore'
    \/ submit /\ AcceptingStore'
    \/ worker_start /\ AcceptingStore'
    \/ \E k \in Files : worker_finish(k) /\ AcceptingStore'
    \/ \E k \in Files : collect(k) /\ AcceptingStore'
    \/ upload_files_return /\ AcceptingStore'
    \/ upload_again /\ AcceptingStore'

----------------------------------------------------------------------------
(* DeploymentConfig.from_cloudformation and the environment checks --
   scripts/config.py, cdk/healthmate_frontend_hosting_stack.py *)

\* for attempt in range(max_retries)
max_retries == 10
\* retry_delay = 2 before the loop
base_retry_delay == 2

\* Environment names a caller may pass: the three accepted ones and some others.
EnvironmentNames == { "dev", "stage", "prod", "production", "Dev", "" }

\* Faulty variant: the check ignores the case of the name.
valid_environment_ignoring_case(env) == env \in { "dev", "stage", "prod", "Dev" }

\* environment in ['dev', 'stage', 'prod']
valid_environment(env) == env \in { "dev", "stage", "prod" }

\* stack_name = f"Healthmate-FrontendStack-{environment}"
stack_name(env) == "Healthmate-FrontendStack-" \o env

\* region: str = 'us-west-2'
default_region == "us-west-2"

\* the outputs from_cloudformation reads, in the order it reads them
OutputKeys == << "BucketName", "DistributionId", "DistributionDomainName", "WebsiteUrl" >>

\* the outputs of a completely deployed stack
StackOutputs(env) ==
    [ k \in Range(OutputKeys) |->
        CASE k = "BucketName"             -> "healthmate-frontend-" \o env
          [] k = "DistributionId"         -> "E123456789"
          [] k = "DistributionDomainName" -> "d123.cloudfront.net"
          [] k = "WebsiteUrl"             -> "https://d123.cloudfront.net" ]

\* What one describe_stacks request can meet.
\*   ok               the stack with its four outputs
\*   ValidationError  ClientError: the stack does not exist
\*   Throttling       ClientError: rate exceeded
\*   NoOutputs        the stack exists but has no outputs (yet)
\*   NoWebsiteUrl     the stack lacks the WebsiteUrl output
DescribeStacksOutcomes == { "ok", "ValidationError", "Throttling", "NoOutputs", "NoWebsiteUrl" }

\* cf_client.describe_stacks(StackName=stack_name)
describe_stacks(o, env) ==
    CASE o = "ok" -> [ raised |-> FALSE, outputs |-> StackOutputs(env) ]
      [] o = "ValidationError" ->
           [ raised |-> TRUE, error |-> "ValidationError: Stack does not exist" ]
      [] o = "Throttling" -> [ raised |-> TRUE, error |-> "Throttling: Rate exceeded" ]
      [] o = "NoOutputs" -> [ raised |-> FALSE, outputs |-> << >> ]
      [] o = "NoWebsiteUrl" ->
           [ raised |-> FALSE,
             outputs |-> [ k \in Range(OutputKeys) \ { "WebsiteUrl" } |-> StackOutputs(env)[k] ] ]

\* The body of the try block: the request, the outputs dict, the construction of
\* the DeploymentConfig. A missing output raises KeyError inside the try block,
\* so it counts as a failed attempt like a failed request.
try_resolve(resp, env, region) ==
    IF resp.raised
    THEN [ ok |-> FALSE, e |-> resp.error ]
    ELSE LET missing == { i \in 1..Len(OutputKeys) : OutputKeys[i] \notin DOMAIN resp.outputs }
         IN  IF missing # {}
             THEN [ ok |-> FALSE,
                    e  |-> "'" \o OutputKeys[CHOOSE i \in missing : \A j \in missing : i <= j] \o "'" ]
             ELSE [ ok |-> TRUE,
                    config |-> [ environment              |-> env,
                                 bucket_name              |-> resp.outputs["BucketName"],
                                 distribution_id          |-> resp.outputs["DistributionId"],
                                 distribution_domain_name |-> resp.outputs["DistributionDomainName"],
                                 website_url              |-> resp.outputs["WebsiteUrl"],
                                 region                   |-> region ] ]

\* Faulty variant: one retry too many.
may_retry_once_more(att) == att < max_retries

\* if attempt < max_retries - 1: sleep and retry, else raise
may_retry(att) == att < max_retries - 1

\* Faulty variant: the delay grows by a constant step.
next_retry_delay_linear(d) == d + base_retry_delay

\* retry_delay *= 2
next_retry_delay(d) == d * 2

\* Faulty variant: the message drops the underlying error.
runtime_error_without_cause(stack, e) ==
    "Failed to get CloudFormation outputs for stack " \o stack

\* RuntimeError(f"Failed to get CloudFormation outputs for stack {stack_name}: {e}")
runtime_error(stack, e) ==
    "Failed to get CloudFormation outputs for stack " \o stack \o ": " \o e

NoExternalOperation == [ clients |-> 0, file_reads |-> 0, env_reads |-> 0, stacks |-> 0 ]

NoOutcome == [ pending |-> TRUE ]

CfgInit ==
    /\ cfg_pc = "idle"
    /\ cfg_fn = "none"
    /\ cfg_env = "dev"
    /\ attempt = 0
    /\ retry_delay = base_retry_delay
    /\ slept = << >>
    /\ describe_calls = 0
    /\ succeeded_at = 0
    /\ first_error = ""
    /\ last_error = ""
    /\ ext = NoExternalOperation
    /\ cfg_outcome = NoOutcome
    /\ cf_stacks = {}

\* from_cloudformation(environment): the check of the name, then the client,
\* the stack name and the loop variables.
from_cloudformation_call ==
    /\ cfg_pc = "idle"
    /\ \E env \in EnvironmentNames :
         /\ cfg_env' = env
         /\ IF ~valid_environment(env)
            THEN /\ cfg_pc' = "raised"
                 /\ cfg_outcome' = [ raised |-> TRUE, type |-> "ValueError",
                                     message |-> "Invalid environment: " \o env ]
                 /\ UNCHANGED ext
            ELSE /\ cfg_pc' = "attempt"
                 /\ ext' = [ ext EXCEPT !.clients = @ + 1 ]
                 /\ UNCHANGED cfg_outcome
    /\ cfg_fn' = "from_cloudformation"
    /\ attempt' = 0
    /\ retry_delay' = base_retry_delay
    /\ UNCHANGED << slept, describe_calls, succeeded_at, first_error, last_error >>
    /\ UNCHANGED cf_stacks
    /\ UNCHANGED NotConfig

\* One iteration of the retry loop: the request and, when the try block fails,
\* either the sleep with the doubling of the delay or the RuntimeError.
from_cloudformation_attempt ==
    /\ cfg_pc = "attempt"
    /\ describe_calls' = describe_calls + 1
    /\ \E o \in DescribeStacksOutcomes :
         LET r == try_resolve(describe_stacks(o, cfg_env), cfg_env, default_region)
         IN  IF r.ok
             THEN /\ cfg_pc' = "returned"
                  /\ cfg_outcome' = [ raised |-> FALSE, value |-> r.config ]
                  /\ succeeded_at' = describe_calls + 1
                  /\ UNCHANGED << attempt, retry_delay, slept, first_error, last_error >>
             ELSE /\ first_error' = IF attempt = 0 THEN r.e ELSE first_error
                  /\ last_error' = r.e
                  /\ UNCHANGED succeeded_at
                  /\ IF may_retry(attempt)
                     THEN /\ slept' = Append(slept, retry_delay)
                          /\ retry_delay' = next_retry_delay(retry_delay)
                          /\ attempt' = attempt + 1
                          /\ UNCHANGED << cfg_pc, cfg_outcome >>
                     ELSE /\ cfg_pc' = "raised"
                          /\ cfg_outcome' =
                               [ raised |-> TRUE, type |-> "RuntimeError",
                                 message |-> runtime_error(stack_name(cfg_env), r.e) ]
                          /\ UNCHANGED << slept, retry_delay, attempt >>
    /\ UNCHANGED << cfg_fn, cfg_env, ext >>
    /\ UNCHANGED cf_stacks
    /\ UNCHANGED NotConfig

\* EnvironmentSettings.load(environment): the check of the name, then the
\* config file is looked up, read and parsed.
EnvironmentSettings_load ==
    /\ cfg_pc = "idle"
    /\ \E env \in EnvironmentNames :
         /\ cfg_env' = env
         /\ IF ~valid_environment(env)
            THEN /\ cfg_pc' = "raised"
                 /\ cfg_outcome' = [ raised |-> TRUE, type |-> "ValueError",
                                     message |-> "Invalid environment: " \o env ]
                 /\ UNCHANGED ext
            ELSE \E file \in { "missing", "malformed", "ok" } :
                   CASE file = "missing" ->
                          /\ cfg_pc' = "raised"
                          /\ cfg_outcome' = [ raised |-> TRUE, type |-> "FileNotFoundError",
                                              message |-> "Environment config file not found" ]
                          /\ ext' = [ ext EXCEPT !.file_reads = @ + 1 ]
                     [] file = "malformed" ->
                          /\ cfg_pc' = "raised"
                          /\ cfg_outcome' = [ raised |-> TRUE, type |-> "ValueError",
                                              message |-> "Invalid environment config file" ]
                          /\ ext' = [ ext EXCEPT !.file_reads = @ + 2 ]
                     [] file = "ok" ->
                          /\ cfg_pc' = "returned"
                          /\ cfg_outcome' = [ raised |-> FALSE,
                                              value |-> [ environment |-> env,
                                                          aws_region  |-> default_region ] ]
                          /\ ext' = [ ext EXCEPT !.file_reads = @ + 2, !.env_reads = @ + 1 ]
    /\ cfg_fn' = "EnvironmentSettings.load"
    /\ UNCHANGED << attempt, retry_delay, slept, describe_calls, succeeded_at,
                    first_error, last_error >>
    /\ UNCHANGED cf_stacks
    /\ UNCHANGED NotConfig

\* get_environment_config(environment): the check of the name, then the dict,
\* whose region is read from the process environment.
get_environment_config ==
    /\ cfg_pc = "idle"
    /\ \E env \in EnvironmentNames :
         /\ cfg_env' = env
         /\ IF ~valid_environment(env)
            THEN /\ cfg_pc' = "raised"
                 /\ cfg_outcome' =
                      [ raised |-> TRUE, type |-> "ValueError",
                        message |-> "Invalid environment: " \o env
                                    \o ". Must be one of: dev, stage, prod" ]
                 /\ UNCHANGED ext
            ELSE /\ cfg_pc' = "returned"
                 /\ cfg_outcome' = [ raised |-> FALSE,
                                     value |-> [ region        |-> default_region,
                                                 environment   |-> env,
                                                 bucket_prefix |-> "healthmate-frontend-" \o env ] ]
                 /\ ext' = [ ext EXCEPT !.env_reads = @ + 1 ]
    /\ cfg_fn' = "get_environment_config"
    /\ UNCHANGED << attempt, retry_delay, slept, describe_calls, succeeded_at,
                    first_error, last_error >>
    /\ UNCHANGED cf_stacks
    /\ UNCHANGED NotConfig

\* HostingStackProps(environment=...): __post_init__ checks the name; only a
\* props object that was constructed is handed to HealthmateFrontendHostingStack,
\* whose constructor creates the bucket, the distribution and the outputs.
HostingStackProps ==
    /\ cfg_pc = "idle"
    /\ \E env \in EnvironmentNames :
         /\ cfg_env' = env
         /\ IF ~valid_environment(env)
            THEN /\ cfg_pc' = "raised"
                 /\ cfg_outcome' =
                      [ raised |-> TRUE, type |-> "ValueError",
                        message |-> "Invalid environment '" \o env
                                    \o "'. Must be one of: dev, stage, prod" ]
                 /\ UNCHANGED ext
            ELSE /\ cfg_pc' = "returned"
                 /\ cfg_outcome' = [ raised |-> FALSE,
                                     value |-> [ environment |-> env, domain_name |-> "None" ] ]
                 /\ ext' = [ ext EXCEPT !.stacks = @ + 1 ]
    /\ cfg_fn' = "HostingStackProps"
    /\ UNCHANGED << attempt, retry_delay, slept, describe_calls, succeeded_at,
                    first_error, last_error >>
    /\ UNCHANGED cf_stacks
    /\ UNCHANGED NotConfig

----------------------------------------------------------------------------
(* The CDK app -- cdk/app.py, cdk/healthmate_frontend_hosting_stack.py *)

\* valid_environments = ["dev", "stage", "prod"]
valid_environments == { "dev", "stage", "prod" }

\* str.title() on the environment names: the first letter in upper case, the
\* other letters in lower case
title(env) ==
    CASE env = "dev"        -> "Dev"
      [] env = "stage"      -> "Stage"
      [] env = "prod"       -> "Prod"
      [] env = "production" -> "Production"
      [] env = "Dev"        -> "Dev"
      [] env = ""           -> ""

\* f"HealthmateFrontendHosting-{environment.title()}": the construct id of the
\* stack, which is its CloudFormation stack name as no stack_name is passed
cdk_stack_id(env) == "HealthmateFrontendHosting-" \o title(env)

\* _create_outputs: the CfnOutput ids, which are the output keys of the stack
cdk_outputs == { "BucketName", "DistributionId", "DistributionDomainName", "WebsiteUrl" }

\* main() of cdk/app.py followed by the deployment of what it synthesises: the
\* environment is checked and the hosting stack is created under its id.
cdk_app_main ==
    /\ \E env \in EnvironmentNames :
         IF env \notin valid_environments
         THEN UNCHANGED cf_stacks
         ELSE cf_stacks' = cf_stacks \cup
                { [ environment |-> env, name |-> cdk_stack_id(env), outputs |-> cdk_outputs ] }
    /\ UNCHANGED << cfg_pc, cfg_fn, cfg_env, attempt, retry_delay, slept, describe_calls,
                    succeeded_at, first_error, last_error, ext, cfg_outcome >>
    /\ UNCHANGED NotConfig

\* the stacks of the given name
StacksNamed(name) == { s \in cf_stacks : s.name = name }

\* CloudFormation answers the describe_stacks request of this step from the
\* stacks the app has deployed: a stack is returned only if one of that name
\* exists, with the outputs it defines, and "does not exist" only if none does.
AnsweredFromDeployedStacks ==
    LET found == StacksNamed(stack_name(cfg_env))
    IN  IF succeeded_at' # succeeded_at
        THEN \E s \in found : Range(OutputKeys) \subseteq s.outputs
        ELSE /\ last_error' = "ValidationError: Stack does not exist" => found = {}
             /\ last_error' = "'BucketName'" => found # {}
             /\ last_error' = "'WebsiteUrl'" => \E s \in found : "WebsiteUrl" \notin s.outputs

ResolveNext ==
    \/ cdk_app_main
    \/ from_cloudformation_call
    \/ from_cloudformation_attempt /\ AnsweredFromDeployedStacks

CfgNext ==
    \/ from_cloudformation_call
    \/ from_cloudformation_attempt
    \/ EnvironmentSettings_load
    \/ get_environment_config
    \/ HostingStackProps

----------------------------------------------------------------------------
(* CloudFrontInvalidator.optimize_invalidation_paths -- scripts/invalidate.py *)

\* Bound of the model: the number of file names paths are made of.
NumNames == 6

\* if len(unique_paths) > 10
many_paths == 10
\* if len(optimized) > 5
wildcard_threshold == 5

\* A path is a sequence of characters. Python orders strings by code point.
ord(c) ==
    CASE c = "*" -> 42 [] c = "/" -> 47
      [] c = "a" -> 97 [] c = "b" -> 98 [] c = "c" -> 99 [] c = "d" -> 100
      [] c = "e" -> 101 [] c = "f" -> 102 [] c = "g" -> 103 [] c = "h" -> 104

Names == << "a", "b", "c", "d", "e", "f", "g", "h" >>

\* Every name without and with the leading slash, in an order that is not the
\* sorted one.
PathUniverse ==
    [ i \in 1..(2 * NumNames) |->
        IF i % 2 = 1 THEN << Names[(i + 1) \div 2] >> ELSE << "/", Names[i \div 2] >> ]

Reverse(s) == [ i \in 1..Len(s) |-> s[Len(s) + 1 - i] ]

\* the paths of S as a list in the order of PathUniverse
Listed(S) == SelectSeq(PathUniverse, LAMBDA p : p \in S)

\* The argument lists tried: every set of paths of the universe, listed forward
\* or backward, without or with its first entry repeated at the end.
InputLists ==
    UNION { { Listed(S), Reverse(Listed(S)) } : S \in SUBSET Range(PathUniverse) }
    \cup { Append(Listed(S), Listed(S)[1]) : S \in (SUBSET Range(PathUniverse)) \ { {} } }
    \cup { Append(Reverse(Listed(S)), Listed(S)[1]) : S \in (SUBSET Range(PathUniverse)) \ { {} } }

RECURSIVE str_less(_, _)
\* p < q for Python strings
str_less(p, q) ==
    IF p = << >> THEN q # << >>
    ELSE IF q = << >> THEN FALSE
    ELSE IF Head(p) = Head(q) THEN str_less(Tail(p), Tail(q))
    ELSE ord(Head(p)) < ord(Head(q))

RECURSIVE sorted(_)
\* sorted(S) for a set of strings
sorted(S) ==
    IF S = {} THEN << >>
    ELSE LET m == CHOOSE x \in S : \A y \in S \ { x } : str_less(x, y)
         IN  << m >> \o sorted(S \ { m })

\* path.startswith('/')
startswith_slash(p) == p # << >> /\ Head(p) = "/"

\* '/*'
wildcard == << "/", "*" >>

\* Faulty variant: without the final "if len(optimized) > 5" check.
optimize_without_final_check(ps) ==
    IF ps = << >> THEN << wildcard >>
    ELSE LET unique_paths == sorted(Range(ps))
         IN  IF Len(unique_paths) > many_paths THEN << wildcard >>
             ELSE [ i \in 1..Len(unique_paths) |->
                      IF startswith_slash(unique_paths[i]) THEN unique_paths[i]
                      ELSE << "/" >> \o unique_paths[i] ]

\* optimize_invalidation_paths(paths)
optimize_invalidation_paths(ps) ==
    IF ps = << >> THEN << wildcard >>
    ELSE LET unique_paths == sorted(Range(ps))
         IN  IF Len(unique_paths) > many_paths THEN << wildcard >>
             ELSE LET optimized_list ==
                        [ i \in 1..Len(unique_paths) |->
                            IF startswith_slash(unique_paths[i]) THEN unique_paths[i]
                            ELSE << "/" >> \o unique_paths[i] ]
                  IN  IF Len(optimized_list) > wildcard_threshold THEN << wildcard >>
                      ELSE optimized_list

\* no call of optimize_invalidation_paths is in progress
OptIdle ==
    /\ opt_pc = "input"
    /\ paths = << >>
    /\ optimized = << >>

OptInit ==
    /\ opt_pc = "input"
    /\ paths \in InputLists
    /\ optimized = << >>

optimize_call ==
    /\ opt_pc = "input"
    /\ optimized' = optimize_invalidation_paths(paths)
    /\ opt_pc' = "done"
    /\ UNCHANGED paths
    /\ UNCHANGED NotOptimize

OptNext == optimize_call

----------------------------------------------------------------------------
(* CloudFrontInvalidator -- scripts/invalidate.py *)

\* check_interval = 30
check_interval == 30
\* wait_for_invalidation(self, invalidation_id, timeout: int = 900)
default_timeout == 900

\* The fields of the EnvironmentSettings dataclass, the class of self.settings.
EnvironmentSettingsFields ==
    { "environment", "aws_region", "aws_profile", "build_mode", "build_sourcemap",
      "build_minify", "deployment_confirm", "deployment_cache_invalidation",
      "deployment_concurrency", "deployment_retry_attempts", "monitoring_logging",
      "monitoring_log_level" }

\* self.settings.<name>: the value, or AttributeError for a name that is not a
\* field of the dataclass.
settings_getattr(name) ==
    IF name \in EnvironmentSettingsFields
    THEN [ raised |-> FALSE, value |-> "settings." \o name ]
    ELSE [ raised |-> TRUE, type |-> "AttributeError",
           error |-> "'EnvironmentSettings' object has no attribute '" \o name \o "'" ]

\* raise InvalidationError(msg)
InvalidationError(msg) == [ raised |-> TRUE, type |-> "InvalidationError", error |-> msg ]

\* How the CDN can answer get-distribution: the distribution enabled or
\* disabled, a ClientError with one of three codes, or another exception.
DistributionAnswers ==
    { "Enabled", "Disabled", "NoSuchDistribution", "AccessDenied", "Throttling", "Exception" }

\* How the CDN can answer create-invalidation.
CreateAnswers ==
    { "ok", "TooManyInvalidationsInProgress", "InvalidArgument", "AccessDenied", "Exception" }

\* How the CDN can answer get-invalidation: a status (one of them unexpected),
\* a ClientError with one of two codes, or another exception.
InvalidationAnswers ==
    { "Completed", "InProgress", "Cancelled", "NoSuchInvalidation", "Throttling", "Exception" }

\* the answers of get-invalidation that carry a status
Statuses == { "Completed", "InProgress", "Cancelled" }

\* get_distribution_info(): the request it sends (if any) and how it ends.
\* The keyword argument Id=self.settings.distribution_id is evaluated inside
\* the try block, before the request is made.
get_distribution_info(answer) ==
    LET id == settings_getattr("distribution_id")
    IN  IF id.raised
        THEN [ issued |-> << >>,
               res |-> InvalidationError("Unexpected error getting distribution info: " \o id.error) ]
        ELSE [ issued |-> << [ op |-> "get_distribution", Id |-> id.value ] >>,
               res |->
                 CASE answer \in { "Enabled", "Disabled" } ->
                        [ raised |-> FALSE,
                          value |-> [ id |-> id.value, domain_name |-> "d.cloudfront.net",
                                      status |-> "Deployed", enabled |-> (answer = "Enabled") ] ]
                   [] answer = "NoSuchDistribution" ->
                        InvalidationError("Distribution not found: " \o id.value)
                   [] answer = "AccessDenied" ->
                        InvalidationError("Access denied to distribution: " \o id.value)
                   [] answer = "Throttling" ->
                        InvalidationError("Error getting distribution info: Throttling")
                   [] answer = "Exception" ->
                        InvalidationError("Unexpected error getting distribution info: connection reset") ]

\* create_invalidation(paths): the request it sends (if any) and how it ends.
create_invalidation(ps, answer) ==
    LET optimized_paths == optimize_invalidation_paths(ps)
        id == settings_getattr("distribution_id")
    IN  IF id.raised
        THEN [ issued |-> << >>,
               res |-> InvalidationError("Unexpected error creating invalidation: " \o id.error) ]
        ELSE [ issued |-> << [ op |-> "create_invalidation", DistributionId |-> id.value,
                               Quantity |-> Len(optimized_paths), Items |-> optimized_paths ] >>,
               res |->
                 CASE answer = "ok" ->
                        [ raised |-> FALSE,
                          value |-> [ success |-> TRUE, invalidation_id |-> "I1",
                                      status |-> "InProgress", paths |-> optimized_paths ] ]
                   [] answer = "TooManyInvalidationsInProgress" ->
                        InvalidationError("Too many invalidations in progress. Please wait and try again.")
                   [] answer = "InvalidArgument" ->
                        InvalidationError("Invalid invalidation request: message")
                   [] answer = "AccessDenied" ->
                        InvalidationError("CloudFront error: AccessDenied - message")
                   [] answer = "Exception" ->
                        InvalidationError("Unexpected error creating invalidation: connection reset") ]

\* get_invalidation_status(invalidation_id): the request it sends (if any) and
\* how it ends.
get_invalidation_status(answer) ==
    LET id == settings_getattr("distribution_id")
    IN  IF id.raised
        THEN [ issued |-> << >>,
               res |-> InvalidationError("Unexpected error getting invalidation status: " \o id.error) ]
        ELSE [ issued |-> << [ op |-> "get_invalidation", DistributionId |-> id.value, Id |-> "I1" ] >>,
               res |->
                 CASE answer \in Statuses ->
                        [ raised |-> FALSE, value |-> [ id |-> "I1", status |-> answer ] ]
                   [] answer = "NoSuchInvalidation" ->
                        InvalidationError("Invalidation not found: I1")
                   [] answer = "Throttling" ->
                        InvalidationError("Error getting invalidation status: Throttling")
                   [] answer = "Exception" ->
                        InvalidationError("Unexpected error getting invalidation status: connection reset") ]

\* The two except clauses of invalidate(): each builds the failure dict, and
\* building it reads self.settings.distribution_id. An exception raised while a
\* handler runs leaves invalidate().
invalidate_except(e) ==
    LET id == settings_getattr("distribution_id")
    IN  IF id.raised
        THEN [ raised |-> TRUE, type |-> id.type, error |-> id.error ]
        ELSE [ raised |-> FALSE,
               value |-> [ success |-> FALSE, environment |-> "dev",
                           distribution_id |-> id.value,
                           error |-> IF e.type = "InvalidationError" THEN e.error
                                     ELSE "Unexpected error: " \o e.error ] ]

\* main(), lines 392-419: exit status 0 for a result with success, 1 otherwise;
\* an exception leaving invalidate() is not caught and ends the interpreter
\* with status 1.
main_exit_code(o) ==
    IF o.raised THEN 1
    ELSE IF o.value.success THEN 0 ELSE 1

\* the paths arguments tried: None, the empty list, and short lists
PathArguments ==
    { [ is_none |-> TRUE, items |-> << >> ],
      [ is_none |-> FALSE, items |-> << >> ],
      [ is_none |-> FALSE, items |-> << << "/", "a" >> >> ],
      [ is_none |-> FALSE, items |-> << << "b" >>, << "/", "a" >> >> ] }

\* the timeout arguments tried
Timeouts == { 0, check_interval, 2 * check_interval + 15, default_timeout }

\* seconds one status request can take
PollSeconds == { 0, 1 }

NoResult == [ unset |-> TRUE ]

\* the invalidator has been constructed, no method called yet; the CDN is in
\* any condition
InvInit ==
    /\ inv_pc = "idle"
    /\ inv_fn = "none"
    /\ inv_paths = [ is_none |-> TRUE, items |-> << >> ]
    /\ inv_wait = FALSE
    /\ timeout = default_timeout
    /\ cdn_distribution \in DistributionAnswers
    /\ cdn_create \in CreateAnswers
    /\ cdn_invalidation \in InvalidationAnswers
    /\ requests = << >>
    /\ now = 0
    /\ start_time = 0
    /\ polls = 0
    /\ last_status = "none"
    /\ timed_out = FALSE
    /\ inv_result = NoResult
    /\ inv_outcome = NoOutcome

\* the invalidator is not in use
InvIdle ==
    /\ inv_pc = "idle"
    /\ inv_fn = "none"
    /\ inv_paths = [ is_none |-> TRUE, items |-> << >> ]
    /\ inv_wait = FALSE
    /\ timeout = default_timeout
    /\ cdn_distribution = "Enabled"
    /\ cdn_create = "ok"
    /\ cdn_invalidation = "InProgress"
    /\ requests = << >>
    /\ now = 0
    /\ start_time = 0
    /\ polls = 0
    /\ last_status = "none"
    /\ timed_out = FALSE
    /\ inv_result = NoResult
    /\ inv_outcome = NoOutcome

\* the call ends with outcome o
inv_finish(o) ==
    /\ inv_outcome' = o
    /\ inv_pc' = IF o.raised THEN "raised" ELSE "returned"

\* a caller calls invalidate(paths, wait)
invalidate_call ==
    /\ inv_pc = "idle"
    /\ inv_fn' = "invalidate"
    /\ inv_paths' \in PathArguments
    /\ inv_wait' \in BOOLEAN
    /\ inv_pc' = "get_distribution"
    /\ UNCHANGED << timeout, cdn_distribution, cdn_create, cdn_invalidation, requests, now,
                    start_time, polls, last_status, timed_out, inv_result, inv_outcome >>
    /\ UNCHANGED NotInvalidate

\* a caller calls create_invalidation(paths) directly
create_invalidation_call ==
    /\ inv_pc = "idle"
    /\ inv_fn' = "create_invalidation"
    /\ inv_paths' \in { a \in PathArguments : ~ a.is_none }
    /\ inv_pc' = "create"
    /\ UNCHANGED << inv_wait, timeout, cdn_distribution, cdn_create, cdn_invalidation, requests,
                    now, start_time, polls, last_status, timed_out, inv_result, inv_outcome >>
    /\ UNCHANGED NotInvalidate

\* a caller calls wait_for_invalidation(invalidation_id, timeout) directly
wait_for_invalidation_call ==
    /\ inv_pc = "idle"
    /\ inv_fn' = "wait_for_invalidation"
    /\ timeout' \in Timeouts
    /\ start_time' = now
    /\ inv_pc' = "wait"
    /\ UNCHANGED << inv_paths, inv_wait, cdn_distribution, cdn_create, cdn_invalidation, requests,
                    now, polls, last_status, timed_out, inv_result, inv_outcome >>
    /\ UNCHANGED NotInvalidate

\* invalidate(), lines 301-307: get_distribution_info() and the enabled check
invalidate_get_distribution ==
    /\ inv_pc = "get_distribution"
    /\ LET r == get_distribution_info(cdn_distribution)
       IN  /\ requests' = requests \o r.issued
           /\ IF r.res.raised
              THEN /\ inv_finish(invalidate_except(r.res))
                   /\ UNCHANGED << inv_paths, inv_result >>
              ELSE IF ~ r.res.value.enabled
              THEN /\ inv_finish(invalidate_except(InvalidationError("Distribution is not enabled")))
                   /\ UNCHANGED << inv_paths, inv_result >>
              ELSE /\ inv_result' = [ distribution_domain |-> r.res.value.domain_name ]
                   /\ inv_pc' = "create"
                   /\ UNCHANGED << inv_paths, inv_outcome >>
    /\ UNCHANGED << inv_fn, inv_wait, timeout, cdn_distribution, cdn_create, cdn_invalidation,
                    now, start_time, polls, last_status, timed_out >>
    /\ UNCHANGED NotInvalidate

\* if paths is None: paths = ['/*']
paths_or_everything(arg) == IF arg.is_none THEN << wildcard >> ELSE arg.items

\* create_invalidation(paths), called directly or at line 313 of invalidate()
\* with the paths of lines 310-311; in invalidate() the result dict is built
\* next (lines 315-321) and returned unless wait is set
create_invalidation_request ==
    /\ inv_pc = "create"
    /\ LET r == create_invalidation(paths_or_everything(inv_paths), cdn_create)
           id == settings_getattr("distribution_id")
       IN  /\ requests' = requests \o r.issued
           /\ IF inv_fn = "create_invalidation"
              THEN /\ inv_finish(r.res)
                   /\ UNCHANGED << inv_result, start_time >>
              ELSE IF r.res.raised
              THEN /\ inv_finish(invalidate_except(r.res))
                   /\ UNCHANGED << inv_result, start_time >>
              ELSE IF id.raised
              THEN /\ inv_finish(invalidate_except(id))
                   /\ UNCHANGED << inv_result, start_time >>
              ELSE LET result == [ success |-> TRUE, environment |-> "dev",
                                   distribution_id |-> id.value,
                                   distribution_domain |-> inv_result.distribution_domain,
                                   invalidation |-> r.res.value ]
                   IN  /\ inv_result' = result
                       /\ IF inv_wait
                          THEN /\ inv_pc' = "wait"
                               /\ start_time' = now
                               /\ UNCHANGED inv_outcome
                          ELSE /\ inv_finish([ raised |-> FALSE, value |-> result ])
                               /\ UNCHANGED start_time
    /\ UNCHANGED << inv_fn, inv_paths, inv_wait, timeout, cdn_distribution, cdn_create,
                    cdn_invalidation, now, polls, last_status, timed_out >>
    /\ UNCHANGED NotInvalidate

\* wait_for_invalidation returns completed: to its caller, or into lines
\* 327-332 of invalidate()
wait_return(completed) ==
    IF inv_fn = "wait_for_invalidation"
    THEN /\ inv_finish([ raised |-> FALSE, value |-> completed ])
         /\ UNCHANGED inv_result
    ELSE LET with_completed == [ success |-> inv_result.success,
                                 environment |-> inv_result.environment,
                                 distribution_id |-> inv_result.distribution_id,
                                 distribution_domain |-> inv_result.distribution_domain,
                                 invalidation |-> inv_result.invalidation,
                                 completed |-> completed ]
             result == IF completed THEN with_completed
                       ELSE [ success |-> inv_result.success,
                              environment |-> inv_result.environment,
                              distribution_id |-> inv_result.distribution_id,
                              distribution_domain |-> inv_result.distribution_domain,
                              invalidation |-> inv_result.invalidation,
                              completed |-> completed,
                              warning |-> "Invalidation did not complete within timeout" ]
         IN  /\ inv_result' = result
             /\ inv_finish([ raised |-> FALSE, value |-> result ])

\* Faulty variant: the loop exit after the timeout reports completion.
timeout_result_completed == TRUE

\* return False  (line 288, after "Timeout reached")
timeout_result == FALSE

\* Faulty variant: the loop is entered once more when the timeout is reached.
within_timeout_inclusive(elapsed, t) == elapsed <= t

\* while time.time() - start_time < timeout
within_timeout(elapsed, t) == elapsed < t

\* One evaluation of the while condition of wait_for_invalidation and, when it
\* holds, one iteration: the status request, the status test and the sleep.
wait_for_invalidation_poll ==
    /\ inv_pc = "wait"
    /\ IF ~ within_timeout(now - start_time, timeout)
       THEN /\ timed_out' = TRUE
            /\ wait_return(timeout_result)
            /\ UNCHANGED << requests, now, polls, last_status >>
       ELSE \E d \in PollSeconds :
              LET r == get_invalidation_status(cdn_invalidation)
              IN  /\ requests' = requests \o r.issued
                  /\ polls' = polls + 1
                  /\ UNCHANGED timed_out
                  /\ IF r.res.raised
                     THEN /\ wait_return(FALSE)
                          /\ now' = now + d
                          /\ UNCHANGED last_status
                     ELSE /\ last_status' = r.res.value.status
                          /\ IF r.res.value.status = "Completed"
                             THEN /\ wait_return(TRUE)
                                  /\ now' = now + d
                             ELSE /\ now' = now + d + check_interval
                                  /\ UNCHANGED << inv_pc, inv_result, inv_outcome >>
    /\ UNCHANGED << inv_fn, inv_paths, inv_wait, timeout, cdn_distribution, cdn_create,
                    cdn_invalidation, start_time >>
    /\ UNCHANGED NotInvalidate

\* the CDN: while a caller waits, the invalidation changes its condition
cdn_advance ==
    /\ inv_pc = "wait"
    /\ cdn_invalidation' \in InvalidationAnswers \ { cdn_invalidation }
    /\ UNCHANGED << inv_pc, inv_fn, inv_paths, inv_wait, timeout, cdn_distribution, cdn_create,
                    requests, now, start_time, polls, last_status, timed_out, inv_result,
                    inv_outcome >>
    /\ UNCHANGED NotInvalidate

InvNext ==
    \/ invalidate_call
    \/ create_invalidation_call
    \/ wait_for_invalidation_call
    \/ invalidate_get_distribution
    \/ create_invalidation_request
    \/ wait_for_invalidation_poll
    \/ cdn_advance

----------------------------------------------------------------------------
(* HealthmateFrontendDeployer -- scripts/deploy.py *)

\* raise DeploymentError(msg)
DeploymentError(msg) == [ raised |-> TRUE, type |-> "DeploymentError", error |-> msg ]

\* What validate_prerequisites can meet.
\*   npm_failed       npm --version exits with a non-zero code
\*   npm_not_found    subprocess.run raises FileNotFoundError
\*   npm_error        subprocess.run raises another exception (PermissionError)
\*   no_package_json  package.json is missing
\*   no_credentials   validate_aws_credentials() returns False
PrerequisiteOutcomes ==
    { "ok", "npm_failed", "npm_not_found", "npm_error", "no_package_json", "no_credentials" }

\* validate_prerequisites(): returns None or raises.
validate_prerequisites(o) ==
    CASE o = "ok" -> [ raised |-> FALSE ]
      [] o = "npm_failed" -> DeploymentError("npm is not available")
      [] o = "npm_not_found" -> DeploymentError("npm not found. Please install Node.js and npm.")
      [] o = "npm_error" ->
           [ raised |-> TRUE, type |-> "PermissionError", error |-> "Permission denied: 'npm'" ]
      [] o = "no_package_json" -> DeploymentError("package.json not found in project root")
      [] o = "no_credentials" -> DeploymentError("AWS credentials not configured or invalid")

\* What run_frontend_build can meet.
\*   rmtree_error   shutil.rmtree of the old build directory raises (before the try)
\*   failed         npm run build exits with a non-zero code
\*   no_dist        the build leaves no build directory
\*   no_index_html  the build directory has no index.html
\*   timeout        subprocess.TimeoutExpired
\*   Exception      subprocess.run or the directory walk raises something else
BuildOutcomes == { "ok", "rmtree_error", "failed", "no_dist", "no_index_html", "timeout", "Exception" }

\* Faulty variant: run_frontend_build logs a failed build and returns.
run_frontend_build_returns_anyway(o) == [ raised |-> FALSE, value |-> [ success |-> o = "ok" ] ]

\* run_frontend_build(): returns the build result or raises. The
\* DeploymentErrors raised inside its try block are caught by its own
\* "except Exception" and raised again with a prefix.
run_frontend_build(o) ==
    CASE o = "ok" -> [ raised |-> FALSE, value |-> [ success |-> TRUE ] ]
      [] o = "rmtree_error" ->
           [ raised |-> TRUE, type |-> "OSError", error |-> "Directory not empty: 'dist'" ]
      [] o = "failed" ->
           DeploymentError("Unexpected error during build: Frontend build process failed")
      [] o = "no_dist" ->
           DeploymentError("Unexpected error during build: Build output directory not found: dist")
      [] o = "no_index_html" ->
           DeploymentError("Unexpected error during build: index.html not found in build output")
      [] o = "timeout" -> DeploymentError("Frontend build process timed out")
      [] o = "Exception" -> DeploymentError("Unexpected error during build: out of memory")

\* index.html is file 1 of the build directory
index_html == 1

\* the build directory a run of run_frontend_build can leave behind
dist_after_build(o, d) ==
    CASE o = "ok" -> { x \in DistStates : x.exists /\ index_html \in x.files }
      [] o = "rmtree_error" -> { d }
      [] o = "no_dist" -> { [ exists |-> FALSE, files |-> {} ] }
      [] o = "no_index_html" -> { x \in DistStates : x.exists /\ index_html \notin x.files }
      [] o \in { "failed", "timeout", "Exception" } -> { x \in DistStates : index_html \notin x.files }

\* Faulty variant: an exception that is not a DeploymentError leaves deploy().
deploy_except_propagates_unexpected(e, res) ==
    IF e.type = "DeploymentError"
    THEN [ raised |-> FALSE, value |-> res @@ [ error |-> e.error ] ]
    ELSE e

\* The two except clauses of deploy(): the report gets its 'error' entry and is
\* returned.
deploy_except(e, res) ==
    [ raised |-> FALSE,
      value |-> res @@ [ error |-> IF e.type = "DeploymentError" THEN e.error
                                   ELSE "Unexpected error: " \o e.error ] ]

\* Faulty variant: a successful deployment ends by invalidating every path.
deploy_then_invalidates == << [ op |-> "create_invalidation", Quantity |-> 1, Items |-> << wildcard >> ] >>

\* the CDN requests deploy() sends after the upload: none
deploy_cdn_requests == << >>

\* results['steps'][name] = entry
with_step(res, name, entry) == [ res EXCEPT !.steps = (name :> entry) @@ @ ]

DpInit ==
    /\ dp_pc = "idle"
    /\ skip_build = FALSE
    /\ started = << >>
    /\ ended = << >>
    /\ dp_results = NoResult
    /\ dp_outcome = NoOutcome

\* the call ends with outcome o
dp_finish(o) ==
    /\ dp_outcome' = o
    /\ dp_pc' = IF o.raised THEN "raised" ELSE "returned"

\* a caller calls deploy(skip_build); the results dict is initialised
deploy_call ==
    /\ dp_pc = "idle"
    /\ skip_build' \in BOOLEAN
    /\ dp_results' = [ success |-> FALSE, environment |-> "dev", steps |-> << >> ]
    /\ dp_pc' = "prerequisites"
    /\ UNCHANGED << started, ended, dp_outcome >>
    /\ UNCHANGED << upVars, cfgVars, optVars, invVars >>

\* Step 1: validate_prerequisites() and its steps entry
deploy_prerequisites ==
    /\ dp_pc = "prerequisites"
    /\ started' = Append(started, "prerequisites")
    /\ \E o \in PrerequisiteOutcomes :
         LET r == validate_prerequisites(o)
         IN  /\ ended' = Append(ended, [ step |-> "prerequisites",
                                         outcome |-> IF o = "ok" THEN "succeeded" ELSE "failed" ])
             /\ IF r.raised
                THEN /\ dp_finish(deploy_except(r, dp_results))
                     /\ UNCHANGED dp_results
                ELSE /\ dp_results' = with_step(dp_results, "prerequisites", [ success |-> TRUE ])
                     /\ dp_pc' = "build"
                     /\ UNCHANGED dp_outcome
    /\ UNCHANGED skip_build
    /\ UNCHANGED << upVars, cfgVars, optVars, invVars >>

\* Step 2 when the build is not skipped: run_frontend_build() and its steps entry
deploy_build ==
    /\ dp_pc = "build"
    /\ ~ skip_build
    /\ started' = Append(started, "build")
    /\ \E o \in BuildOutcomes :
         LET r == run_frontend_build(o)
         IN  /\ dist' \in dist_after_build(o, dist)
             /\ ended' = Append(ended, [ step |-> "build",
                                         outcome |-> IF o = "ok" THEN "succeeded" ELSE "failed" ])
             /\ IF r.raised
                THEN /\ dp_finish(deploy_except(r, dp_results))
                     /\ UNCHANGED dp_results
                ELSE /\ dp_results' = with_step(dp_results, "build",
                                                [ success |-> TRUE, details |-> r.value ])
                     /\ dp_pc' = "upload"
                     /\ UNCHANGED dp_outcome
    /\ UNCHANGED skip_build
    /\ UNCHANGED << up_pc, max_workers, head_bucket_calls, head_bucket, files_to_upload, submitted,
                    queue, running, finished, collected, results, attempted, put_calls,
                    upload_result, bucket, run, first_bucket, valid_workers >>
    /\ UNCHANGED << cfgVars, optVars, invVars >>

\* Step 2 when the build is skipped: only the steps entry
deploy_skip_build ==
    /\ dp_pc = "build"
    /\ skip_build
    /\ ended' = Append(ended, [ step |-> "build", outcome |-> "skipped" ])
    /\ dp_results' = with_step(dp_results, "build", [ success |-> TRUE, skipped |-> TRUE ])
    /\ dp_pc' = "upload"
    /\ UNCHANGED << skip_build, started, dp_outcome >>
    /\ UNCHANGED << upVars, cfgVars, optVars, invVars >>

\* Step 3 begins: self.uploader.upload() with the default max_workers
deploy_upload ==
    /\ dp_pc = "upload"
    /\ up_pc = "idle"
    /\ started' = Append(started, "upload")
    /\ max_workers' = DefaultMaxWorkers
    /\ valid_workers' = TRUE
    /\ run' = run + 1
    /\ up_pc' = "verify"
    /\ dp_pc' = "uploading"
    /\ UNCHANGED << skip_build, ended, dp_results, dp_outcome >>
    /\ UNCHANGED << head_bucket_calls, head_bucket, files_to_upload, submitted, queue, running,
                    finished, collected, results, attempted, put_calls, upload_result, dist,
                    bucket, first_bucket >>
    /\ UNCHANGED << cfgVars, optVars, invVars >>

\* Step 3 ends: upload() has returned; its result is checked, the steps entry
\* written and the report returned
deploy_upload_return ==
    /\ dp_pc = "uploading"
    /\ up_pc = "returned"
    /\ ended' = Append(ended, [ step |-> "upload",
                                outcome |-> IF upload_result.success THEN "succeeded" ELSE "failed" ])
    /\ IF ~ upload_result.success
       THEN /\ dp_finish(deploy_except(DeploymentError("S3 upload failed: " \o upload_result.error),
                                       dp_results))
            /\ UNCHANGED << dp_results, requests >>
       ELSE LET res == [ with_step(dp_results, "upload",
                                   [ success |-> TRUE, details |-> upload_result ])
                         EXCEPT !.success = TRUE ]
            IN  /\ dp_results' = res
                /\ requests' = requests \o deploy_cdn_requests
                /\ dp_finish([ raised |-> FALSE, value |-> res ])
    /\ UNCHANGED << skip_build, started >>
    /\ UNCHANGED << inv_pc, inv_fn, inv_paths, inv_wait, timeout, cdn_distribution, cdn_create,
                    cdn_invalidation, now, start_time, polls, last_status, timed_out, inv_result,
                    inv_outcome >>
    /\ UNCHANGED << upVars, cfgVars, optVars >>

DpNext ==
    \/ deploy_call
    \/ deploy_prerequisites
    \/ deploy_build
    \/ deploy_skip_build
    \/ deploy_upload
    \/ UploadSteps
    \/ deploy_upload_return

----------------------------------------------------------------------------
(* Specifications *)

UploadInit   == UpInit /\ CfgInit /\ OptIdle /\ InvIdle /\ DpInit
SpecUpload   == UploadInit /\ [][UpNext]_vars

ConfigInit   == UpUnused /\ CfgInit /\ OptIdle /\ InvIdle /\ DpInit
SpecConfig   == ConfigInit /\ [][CfgNext]_vars

ResolveInit  == UpUnused /\ CfgInit /\ OptIdle /\ InvIdle /\ DpInit
SpecResolve  == ResolveInit /\ [][ResolveNext]_vars

OptimizeInit == UpUnused /\ CfgInit /\ OptInit /\ InvIdle /\ DpInit
SpecOptimize == OptimizeInit /\ [][OptNext]_vars

ReuploadInit == ReInit /\ CfgInit /\ OptIdle /\ InvIdle /\ DpInit
SpecReupload == ReuploadInit /\ [][ReNext]_vars

DeployInit == UpInit /\ CfgInit /\ OptIdle /\ InvIdle /\ DpInit
SpecDeploy == DeployInit /\ [][DpNext]_vars

InvalidateInit == UpUnused /\ CfgInit /\ OptIdle /\ InvInit /\ DpInit
SpecInvalidate == InvalidateInit /\ [][InvNext]_vars

\* The thread that called wait_for_invalidation keeps running: every status
\* query and every sleep returns, so the loop takes its next step.
SpecInvalidateFair ==
    InvalidateInit /\ [][InvNext]_vars /\ WF_vars(wait_for_invalidation_poll)

----------------------------------------------------------------------------
(* Properties of S3Uploader.upload *)

Tasks == Range(files_to_upload)

\* upload_files has returned its report (upload() passes it on as 'results')
ReportReturned == up_pc = "returned" /\ "results" \in DOMAIN upload_result

\* the entries of both lists of a report, successful ones first
Outcomes(rep) == rep.successful_uploads \o rep.failed_uploads

\* the tasks whose upload_file did not end in a success result
FailedTasks == { k \in DOMAIN finished : finished[k].raised \/ ~finished[k].value.success }

\* one entry of Outcomes(rep) per task, and no other
OneOutcomePerTask(rep) ==
    /\ \A k \in Tasks :
         Cardinality({ i \in 1..Len(Outcomes(rep)) : Outcomes(rep)[i].s3_key = k }) = 1
    /\ \A i \in 1..Len(Outcomes(rep)) : Outcomes(rep)[i].s3_key \in Tasks
    /\ \A i \in 1..Len(rep.successful_uploads) : rep.successful_uploads[i].success
    /\ \A i \in 1..Len(rep.failed_uploads) : ~rep.failed_uploads[i].success

\* C1: when upload_files returns, every enumerated task has exactly one
\* outcome, in exactly one of successful_uploads and failed_uploads, and
\* success_count + failure_count = total_files; this for every order in which
\* workers complete, and also when a worker raises instead of returning.
C1_ExactlyOneOutcome ==
    ReportReturned =>
        LET rep == upload_result.results
        IN  /\ OneOutcomePerTask(rep)
            /\ rep.total_files = Cardinality(Tasks)
            /\ rep.success_count + rep.failure_count = rep.total_files

\* a report of a run in which one worker raised and another returned a success
C1_Witness ==
    /\ ReportReturned
    /\ \E j, k \in Tasks : finished[j].raised /\ ~finished[k].raised
                           /\ finished[k].value.success

\* C2 as stated: in every run that passes the bucket check every enumerated
\* task is attempted, whatever subset of tasks fails.
C2_EveryTaskAttempted_AnyWorkerCount ==
    (up_pc = "returned" /\ head_bucket = "ok") => attempted = Tasks

\* C2, amended: in every run that passes the bucket check with max_workers >= 1
\* every enumerated task is attempted, whatever subset of tasks fails, and each
\* failed task is recorded as an outcome with success = FALSE.
C2_EveryTaskAttempted ==
    (up_pc = "returned" /\ head_bucket = "ok" /\ max_workers >= 1) =>
        /\ attempted = Tasks
        /\ Tasks # {} =>
             /\ ReportReturned
             /\ \A k \in FailedTasks :
                  \E i \in 1..Len(upload_result.results.failed_uploads) :
                     /\ upload_result.results.failed_uploads[i].s3_key = k
                     /\ ~upload_result.results.failed_uploads[i].success

\* the first task submitted failed and a task queued behind it was uploaded
C2_Witness ==
    /\ ReportReturned
    /\ Len(files_to_upload) >= 2
    /\ files_to_upload[1] \in FailedTasks
    /\ files_to_upload[2] \in attempted \ FailedTasks
    /\ max_workers = 1

C4_EveryReturnCarriesReport ==
    up_pc = "returned" =>
        /\ "results" \in DOMAIN upload_result
        /\ OneOutcomePerTask(upload_result.results)

\* C4, amended: upload() always returns a dict with 'success'; a return that
\* follows the worker pool (all succeeded, or some failed) carries the complete
\* report with one outcome per task; a return caused by an unreachable bucket,
\* a missing build directory, an empty file set or an unexpected exception has
\* success = FALSE and an 'error', and no 'results'.
C4_ReportAfterPoolOnly ==
    up_pc = "returned" =>
        /\ "success" \in DOMAIN upload_result
        /\ IF submitted > 0
           THEN /\ "results" \in DOMAIN upload_result
                /\ OneOutcomePerTask(upload_result.results)
                /\ ~upload_result.success => "error" \in DOMAIN upload_result
           ELSE /\ ~upload_result.success
                /\ "error" \in DOMAIN upload_result
                /\ "results" \notin DOMAIN upload_result

\* a failed run that still hands back its report, with a success in it
C4_Witness ==
    /\ ReportReturned
    /\ ~upload_result.success
    /\ Len(upload_result.results.successful_uploads) >= 1
    /\ Len(upload_result.results.failed_uploads) >= 1

\* C5: head-bucket comes before any put-object, and when it fails, for
\* whatever reason, the upload fails and no file upload is attempted.
C5_BucketCheckFirst ==
    /\ (attempted # {} \/ \E k \in Files : put_calls[k] > 0) => head_bucket = "ok"
    /\ head_bucket \notin { "none", "ok" } =>
         /\ up_pc = "returned"
         /\ ~upload_result.success
         /\ attempted = {}
         /\ \A k \in Files : put_calls[k] = 0

\* a run ended by a 403 on head-bucket
C5_Witness ==
    /\ head_bucket = "403"
    /\ up_pc = "returned"
    /\ head_bucket_calls = 1

\* C6: at every moment the number of uploads in flight is at most max_workers.
C6_BoundedInFlight == Cardinality(running) <= max_workers

\* the pool is saturated while work items still wait in the queue
C6_Witness ==
    /\ max_workers >= 1
    /\ Cardinality(running) = max_workers
    /\ queue # << >>

----------------------------------------------------------------------------
(* Properties of DeploymentConfig.from_cloudformation and the environment checks *)

\* the call of from_cloudformation passed the check of the environment name
InRetryLoop == cfg_fn = "from_cloudformation" /\ valid_environment(cfg_env)

\* the DeploymentConfig made of the outputs of the deployed stack of env
ResolvedTarget(env) ==
    [ environment              |-> env,
      bucket_name              |-> StackOutputs(env)["BucketName"],
      distribution_id          |-> StackOutputs(env)["DistributionId"],
      distribution_domain_name |-> StackOutputs(env)["DistributionDomainName"],
      website_url              |-> StackOutputs(env)["WebsiteUrl"],
      region                   |-> "us-west-2" ]

\* C7: from_cloudformation returns the resolved target without raising when
\* the query succeeds on attempt k <= 10 after k - 1 failed attempts (so a
\* RuntimeError is raised only after ten failed attempts); it issues the query
\* at most 10 times in one call and never again after a success.
C7_RetryUntilSuccess ==
    InRetryLoop =>
        /\ describe_calls <= 10
        /\ succeeded_at # 0 =>
             /\ succeeded_at <= 10
             /\ describe_calls = succeeded_at
             /\ Len(slept) = succeeded_at - 1
             /\ cfg_pc = "returned"
             /\ ~cfg_outcome.raised
             /\ cfg_outcome.value = ResolvedTarget(cfg_env)
        /\ cfg_pc = "raised" => (succeeded_at = 0 /\ describe_calls = 10)
        /\ (succeeded_at = 0 /\ describe_calls < 10) => cfg_pc = "attempt"

\* three failed attempts, then the fourth request resolves the target
C7_Witness ==
    /\ InRetryLoop
    /\ cfg_pc = "returned"
    /\ succeeded_at = 4
    /\ Len(slept) = 3

\* C8: when all 10 attempts fail, from_cloudformation raises RuntimeError with
\* a message that names the stack Healthmate-FrontendStack-<environment> and
\* carries the error of the last attempt; it returns no target.
C8_PermanentErrorAfterExhaustion ==
    (InRetryLoop /\ describe_calls = 10 /\ succeeded_at = 0) =>
        /\ cfg_pc = "raised"
        /\ cfg_outcome.raised
        /\ cfg_outcome.type = "RuntimeError"
        /\ cfg_outcome.message =
             "Failed to get CloudFormation outputs for stack Healthmate-FrontendStack-"
             \o cfg_env \o ": " \o last_error
        /\ "value" \notin DOMAIN cfg_outcome

\* ten failed attempts whose first and last errors differ
C8_Witness ==
    /\ InRetryLoop
    /\ cfg_pc = "raised"
    /\ describe_calls = 10
    /\ first_error = "Throttling: Rate exceeded"
    /\ last_error = "ValidationError: Stack does not exist"

\* the messages of the three forms of the invalid-environment ValueError
InvalidEnvironmentMessages(env) ==
    { "Invalid environment: " \o env,
      "Invalid environment: " \o env \o ". Must be one of: dev, stage, prod",
      "Invalid environment '" \o env \o "'. Must be one of: dev, stage, prod" }

\* C9: for an environment name outside {dev, stage, prod} each of
\* from_cloudformation, EnvironmentSettings.load, get_environment_config and
\* HostingStackProps fails with the invalid-environment error before any
\* external query, file read or resource creation.
C9_InvalidEnvironmentRejectedFirst ==
    (cfg_fn # "none" /\ cfg_env \notin { "dev", "stage", "prod" }) =>
        /\ cfg_pc = "raised"
        /\ cfg_outcome.raised
        /\ cfg_outcome.type = "ValueError"
        /\ cfg_outcome.message \in InvalidEnvironmentMessages(cfg_env)
        /\ describe_calls = 0
        /\ slept = << >>
        /\ ext = [ clients |-> 0, file_reads |-> 0, env_reads |-> 0, stacks |-> 0 ]

\* from_cloudformation('Dev') was refused
C9_Witness ==
    /\ cfg_fn = "from_cloudformation"
    /\ cfg_env = "Dev"
    /\ cfg_pc = "raised"

----------------------------------------------------------------------------
(* Properties of optimize_invalidation_paths *)

\* C10: optimize_invalidation_paths returns exactly ['/*'] for no paths, and
\* exactly ['/*'] whenever the number of distinct requested paths exceeds the
\* threshold (more than 5 distinct paths, in particular 11).
C10_WildcardCollapse ==
    opt_pc = "done" =>
        /\ paths = << >> => optimized = << << "/", "*" >> >>
        /\ Cardinality(Range(paths)) > 5 => optimized = << << "/", "*" >> >>

\* eleven distinct paths were collapsed to the wildcard
C10_Witness ==
    /\ opt_pc = "done"
    /\ Cardinality(Range(paths)) = 11
    /\ optimized = << << "/", "*" >> >>

\* the list has no entry twice
NoDuplicates(s) == \A i, j \in 1..Len(s) : s[i] = s[j] => i = j

\* the list is in ascending string order
IsSorted(s) == \A i, j \in 1..Len(s) : i < j => ~ str_less(s[j], s[i])

\* C11: for a non-empty input whose number of distinct paths does not exceed
\* the threshold, the list optimize_invalidation_paths returns is deduplicated,
\* sorted, and every entry starts with '/' (also when the input mixes 'a' with
\* '/a', or 'b' with '/c').
C11_DeduplicatedSortedSlashed ==
    (opt_pc = "done" /\ paths # << >> /\ Cardinality(Range(paths)) <= 5) =>
        /\ NoDuplicates(optimized)
        /\ IsSorted(optimized)
        /\ \A i \in 1..Len(optimized) : startswith_slash(optimized[i])

----------------------------------------------------------------------------
(* Properties of CloudFrontInvalidator *)

\* the call is over
InvEnded == inv_pc \in { "returned", "raised" }

\* wait_for_invalidation has run and returned
WaitEnded ==
    /\ inv_pc = "returned"
    /\ \/ inv_fn = "wait_for_invalidation"
       \/ inv_fn = "invalidate" /\ "completed" \in DOMAIN inv_outcome.value

\* what wait_for_invalidation returned
WaitResult ==
    IF inv_fn = "wait_for_invalidation" THEN inv_outcome.value ELSE inv_outcome.value.completed

\* the create-invalidation requests sent
CreateRequests == SelectSeq(requests, LAMBDA q : q.op = "create_invalidation")

\* the error the caller gets to see: the message of the exception raised, or
\* the 'error' entry of the returned dict
SurfacedError ==
    IF inv_outcome.raised THEN inv_outcome.error
    ELSE IF "error" \in DOMAIN inv_outcome.value THEN inv_outcome.value.error
    ELSE "none"

\* C12: wait_for_invalidation returns true only after a status poll returned
\* 'Completed'; while the invalidation has any other status ('InProgress' or
\* an unexpected value) the loop polls again after the interval and gives no
\* result before the timeout.
C12_SuccessOnlyAfterCompleted ==
    WaitEnded =>
        /\ WaitResult = TRUE => last_status = "Completed"
        /\ cdn_invalidation \in Statuses \ { "Completed" } => timed_out

C14_TooManyInvalidationsDistinctError ==
    /\ Len(CreateRequests) <= 1
    /\ ( /\ InvEnded
         /\ cdn_create = "TooManyInvalidationsInProgress"
         /\ \/ inv_fn = "create_invalidation"
            \/ inv_fn = "invalidate" /\ cdn_distribution = "Enabled" )
       => SurfacedError = "Too many invalidations in progress. Please wait and try again."

\* C15: invalidate() called without explicit paths (None or []) on an enabled
\* distribution sends exactly one create-invalidation, with Items ['/*'] and
\* Quantity 1, and returns a result with success = true that carries the
\* invalidation id.
C15_DefaultPathsInvalidateEverything ==
    ( /\ InvEnded
      /\ inv_fn = "invalidate"
      /\ inv_paths.items = << >>
      /\ cdn_distribution = "Enabled"
      /\ cdn_create = "ok" )
    =>
      /\ inv_pc = "returned"
      /\ Len(CreateRequests) = 1
      /\ CreateRequests[1].Items = << wildcard >>
      /\ CreateRequests[1].Quantity = 1
      /\ inv_outcome.value.success
      /\ inv_outcome.value.invalidation.invalidation_id = "I1"

----------------------------------------------------------------------------
(* Properties of repeated uploads *)

\* the report of the run that just returned counts every artifact as a
\* success and nothing as a failure
CleanReport ==
    /\ ReportReturned
    /\ upload_result.success
    /\ upload_result.results.total_files = Cardinality(dist.files)
    /\ upload_result.results.success_count = upload_result.results.total_files
    /\ upload_result.results.failure_count = 0

\* the bucket holds, under the key of every artifact, the object made of that
\* artifact, and from the second run on it is as the first run left it
SameBucket ==
    /\ \A k \in dist.files : bucket[k] = s3_object(k)
    /\ run >= 2 => bucket = first_bucket

\* the build directory holds an artifact set
HasArtifacts == dist.exists /\ dist.files # {}

\* C20 as stated: every run of upload() over the same unchanged artifact set,
\* with the store accepting every put, reports total_files successes and zero
\* failures and leaves the bucket with the key-to-content mapping of the first
\* run.
C20_IdempotentAnyWorkerCount ==
    (up_pc = "returned" /\ HasArtifacts) => CleanReport /\ SameBucket

\* C20: every run of upload() with max_workers >= 1 over the same unchanged
\* artifact set, with the store accepting every put, reports total_files
\* successes and zero failures and leaves the bucket with the key-to-content
\* mapping of the first run.
C20_Idempotent ==
    (up_pc = "returned" /\ HasArtifacts /\ valid_workers) => CleanReport /\ SameBucket

\* a second run over two or more artifacts has returned, and the bucket is as
\* the first run left it
C20_Witness ==
    /\ up_pc = "returned"
    /\ run = 2
    /\ valid_workers
    /\ Cardinality(dist.files) >= 2
    /\ upload_result.success
    /\ upload_result.results.success_count = Cardinality(dist.files)
    /\ first_bucket = bucket
    /\ \A k \in dist.files : put_calls[k] = 1

----------------------------------------------------------------------------
(* Properties of HealthmateFrontendDeployer.deploy *)

IsPrefix(s, t) == Len(s) <= Len(t) /\ \A i \in 1..Len(s) : s[i] = t[i]

\* step ended with outcome
Ended(step, outcome) == \E i \in 1..Len(ended) : ended[i] = [ step |-> step, outcome |-> outcome ]

\* some step failed
SomeStepFailed == \E i \in 1..Len(ended) : ended[i].outcome = "failed"

\* C16: deploy() starts its steps in the order prerequisites, build, upload; the
\* build starts only after the prerequisites succeeded, the upload (and with it
\* every step of the uploader) only after the build succeeded or was skipped,
\* and after a failed step no other step starts.
C16_StepsStrictlyOrdered ==
    /\ IsPrefix(started, IF skip_build THEN << "prerequisites", "upload" >>
                         ELSE << "prerequisites", "build", "upload" >>)
    /\ "build" \in Range(started) => Ended("prerequisites", "succeeded")
    /\ "upload" \in Range(started) =>
          /\ Ended("prerequisites", "succeeded")
          /\ Ended("build", "succeeded") \/ Ended("build", "skipped")
    /\ up_pc # "idle" => "upload" \in Range(started)
    /\ \A i \in 1..Len(ended) :
          ended[i].outcome = "failed" => started[Len(started)] = ended[i].step

\* the build failed after the prerequisites had succeeded, deploy() returned
\* and neither the upload step nor the uploader ever started
C16_Witness ==
    /\ dp_pc = "returned"
    /\ started = << "prerequisites", "build" >>
    /\ Ended("build", "failed")
    /\ up_pc = "idle"

\* C17: the report deploy() returns has a steps entry for every step that
\* ended, with success = false for the step that failed and success = true for
\* the steps completed (or skipped) before it, and no entry for any other
\* step.
C17_EveryStartedStepRecorded ==
    dp_pc = "returned" =>
        LET steps == dp_outcome.value.steps
        IN  /\ \A i \in 1..Len(ended) :
                  /\ ended[i].step \in DOMAIN steps
                  /\ steps[ended[i].step].success = (ended[i].outcome # "failed")
            /\ \A n \in DOMAIN steps : \E i \in 1..Len(ended) : ended[i].step = n

\* C18: deploy() never raises; whenever a step failed, for an expected or an
\* unexpected reason, it returns a report with success = false and an 'error'
\* message, and a report with success = true means that the prerequisites
\* succeeded, the build succeeded or was skipped, and the upload succeeded.
C18_FailureIsReportedNotRaised ==
    /\ dp_pc # "raised"
    /\ dp_pc = "returned" =>
          LET r == dp_outcome.value
          IN  /\ ~ dp_outcome.raised
              /\ SomeStepFailed => ~ r.success
              /\ ~ r.success => "error" \in DOMAIN r /\ r.error # ""
              /\ r.success =>
                    /\ Len(ended) = 3
                    /\ ended[1] = [ step |-> "prerequisites", outcome |-> "succeeded" ]
                    /\ ended[2].step = "build" /\ ended[2].outcome \in { "succeeded", "skipped" }
                    /\ ended[3] = [ step |-> "upload", outcome |-> "succeeded" ]
                    /\ upload_result.success

\* an exception that is not a DeploymentError ended the prerequisites step and
\* deploy() returned a failure report
C18_Witness ==
    /\ dp_pc = "returned"
    /\ Ended("prerequisites", "failed")
    /\ dp_outcome.value.success = FALSE
    /\ dp_outcome.value.error = "Unexpected error: Permission denied: 'npm'"

C21_AtMostOnePutPerTask ==
    /\ \A k \in Files : put_calls[k] <= 1
    /\ NoDuplicates(files_to_upload)
    /\ submitted <= Len(files_to_upload)
    /\ run <= 1

\* deploy() returned after an upload in which the put of a task was refused;
\* that task saw one put and no second attempt
C21_Witness ==
    /\ dp_pc = "returned"
    /\ Ended("upload", "failed")
    /\ \E k \in DOMAIN finished :
          /\ ~ finished[k].raised
          /\ ~ finished[k].value.success
          /\ put_calls[k] = 1

----------------------------------------------------------------------------
(* Further properties of S3Uploader.upload *)

\* the step is one of a pool thread: it takes a work item or ends upload_file
WorkerStep == running' # running

\* the step is one of the coordinating thread: it moves on in upload_files or
\* consumes a future
CoordinatorStep == up_pc' # up_pc \/ collected' # collected

\* C22: every write of the aggregate report (successful_uploads,
\* failed_uploads, total_size) is made by the coordinating thread; a step of a
\* worker thread never changes it, so no two threads write it at the same
\* time.
C22_ReportWrittenByCoordinatorOnly ==
    [][results' # results => (CoordinatorStep /\ ~ WorkerStep)]_vars

\* the coordinating thread has recorded an outcome in the report while two
\* workers are still inside upload_file
C22_Witness ==
    /\ up_pc = "collect"
    /\ collected # {}
    /\ Len(results.successful_uploads) + Len(results.failed_uploads) >= 1
    /\ Cardinality(running) >= 2

----------------------------------------------------------------------------
(* Further properties of the configuration lookup *)

\* C23: in from_cloudformation the wait before retry k (k = 1..9) is
\* 2 * 2^(k-1) seconds, one wait follows each failed attempt but the last, and
\* no wait follows the 10th, final, failed attempt.
C23_ExponentialBackoff ==
    cfg_fn = "from_cloudformation" =>
        /\ \A k \in DOMAIN slept : slept[k] = base_retry_delay * 2^(k - 1)
        /\ Len(slept) <= max_retries - 1
        /\ cfg_pc = "attempt" => Len(slept) = describe_calls
        /\ cfg_pc = "returned" => Len(slept) = describe_calls - 1
        /\ (cfg_pc = "raised" /\ cfg_outcome.type = "RuntimeError") =>
              /\ describe_calls = max_retries
              /\ Len(slept) = max_retries - 1

\* all ten attempts failed: nine waits, the last of 512 seconds
C23_Witness ==
    /\ cfg_fn = "from_cloudformation"
    /\ cfg_pc = "raised"
    /\ cfg_outcome.type = "RuntimeError"
    /\ describe_calls = max_retries
    /\ slept = << 2, 4, 8, 16, 32, 64, 128, 256, 512 >>

----------------------------------------------------------------------------
(* Further properties of S3Uploader.upload: nothing to upload *)

\* the build directory is missing or holds no regular file
NothingToUpload == ~ dist.exists \/ dist.files = {}

\* C24: upload() over an empty artifact set or a missing build directory
\* returns success = false with an error and issues no put-object request.
C24_NothingToUploadIsAnError ==
    NothingToUpload =>
        /\ \A k \in Files : put_calls[k] = 0
        /\ submitted = 0
        /\ up_pc = "returned" =>
              /\ upload_result.success = FALSE
              /\ "error" \in DOMAIN upload_result

\* the bucket was verified, the enumeration found nothing and upload() returned
C24_Witness ==
    /\ NothingToUpload
    /\ head_bucket = "ok"
    /\ up_pc = "returned"
    /\ upload_result.success = FALSE
    /\ upload_result.error \in { "Build directory not found", "No files found to upload" }

----------------------------------------------------------------------------
(* Further properties of CloudFrontInvalidator.invalidate *)

\* invalidate() has ended
InvalidateEnded == inv_fn = "invalidate" /\ InvEnded

\* C25: invalidate() never raises: every failure is returned as a result with
\* success = false that carries the environment, the distribution id and an
\* 'error' entry.
C25_InvalidateNeverRaises ==
    InvalidateEnded =>
        /\ inv_pc = "returned"
        /\ ~ inv_outcome.value.success =>
              { "environment", "distribution_id", "error" } \subseteq DOMAIN inv_outcome.value

\* C26: invalidate() queries the distribution before it creates an
\* invalidation; when the distribution cannot be fetched or is not enabled, no
\* create-invalidation request is issued and the result has success = false.
C26_DistributionCheckedBeforeCreate ==
    inv_fn = "invalidate" =>
        /\ \A i \in DOMAIN requests :
              requests[i].op = "create_invalidation" =>
                  \E j \in 1 .. (i - 1) : requests[j].op = "get_distribution"
        /\ (InvEnded /\ cdn_distribution # "Enabled") =>
              /\ CreateRequests = << >>
              /\ inv_pc = "returned"
              /\ inv_outcome.value.success = FALSE

\* C27: invalidate(wait = true) whose polling ends without 'Completed' returns
\* a result with success = true that carries the invalidation id,
\* completed = false and a warning, and the command exits with status 0.
C27_UnfinishedWaitIsSuccessWithWarning ==
    ( /\ InvalidateEnded
      /\ inv_wait
      /\ cdn_distribution = "Enabled"
      /\ cdn_create = "ok"
      /\ last_status # "Completed" )
    =>
      /\ inv_pc = "returned"
      /\ inv_outcome.value.success
      /\ inv_outcome.value.invalidation.invalidation_id = "I1"
      /\ inv_outcome.value.completed = FALSE
      /\ "warning" \in DOMAIN inv_outcome.value
      /\ main_exit_code(inv_outcome) = 0

----------------------------------------------------------------------------
(* Termination of wait_for_invalidation *)

\* ceil(t / check_interval) for t >= 0
max_polls(t) == (t + check_interval - 1) \div check_interval

\* the poll count stays within ceil(timeout / 30), the loop goes round again
\* only after a poll that was answered with a status other than 'Completed'
\* and was followed by the sleep, and a returned wait ended in 'Completed'
\* (true), in a failed status query or in the timeout (false)
WaitLoopBounded ==
    /\ polls <= max_polls(timeout)
    /\ timeout = default_timeout => polls <= 30
    /\ inv_pc = "wait" =>
          /\ last_status # "Completed"
          /\ now - start_time >= polls * check_interval
    /\ WaitEnded =>
          /\ WaitResult = TRUE => last_status = "Completed"
          /\ WaitResult = FALSE =>
                \/ timed_out
                \/ polls >= 1

\* C28: wait_for_invalidation always terminates when every status query
\* returns and the clock advances: with timeout T and the 30 second interval
\* it polls at most ceil(T / 30) times (30 times for the default 900) and ends
\* at the first 'Completed', the first failed status query or the timeout.
C28_WaitTerminates ==
    /\ [] WaitLoopBounded
    /\ (inv_pc = "wait") ~> InvEnded

\* a wait with the default timeout polled and has ended
C28_Witness ==
    /\ inv_fn = "wait_for_invalidation"
    /\ timeout = default_timeout
    /\ inv_pc = "returned"
    /\ polls >= 1
    /\ inv_outcome = [ raised |-> FALSE, value |-> FALSE ]

----------------------------------------------------------------------------
(* The byte count of the upload report *)

RECURSIVE SumOfSizes(_)
\* the sum of the 'size' entries of a sequence of outcomes
SumOfSizes(outcomes) ==
    IF outcomes = << >> THEN 0
    ELSE Head(outcomes).size + SumOfSizes(Tail(outcomes))

RECURSIVE SizeOfFiles(_)
\* the sum of the sizes of a set of files
SizeOfFiles(S) ==
    IF S = {} THEN 0
    ELSE LET k == CHOOSE x \in S : TRUE
         IN  FileSize(k) + SizeOfFiles(S \ { k })

\* the tasks whose upload_file returned success
SucceededTasks ==
    { k \in DOMAIN finished : ~ finished[k].raised /\ finished[k].value.success }

\* C29: in the report of upload_files total_size is the sum of the sizes of
\* exactly the outcomes in successful_uploads; failed uploads add nothing, and
\* the value depends only on which tasks succeeded, not on the order in which
\* they completed.
C29_TotalSizeIsSumOfSuccessful ==
    /\ results # NoResults =>
          /\ results.total_size = SumOfSizes(results.successful_uploads)
          /\ results.total_size = SizeOfFiles(SucceededTasks \cap collected)
    /\ ReportReturned =>
          /\ upload_result.results.total_size
                = SumOfSizes(upload_result.results.successful_uploads)
          /\ upload_result.results.total_size = SizeOfFiles(SucceededTasks)

\* a returned report with a failed upload and two successful ones that were
\* collected in the reverse of their submission order
C29_Witness ==
    /\ ReportReturned
    /\ Len(upload_result.results.failed_uploads) >= 1
    /\ Len(upload_result.results.successful_uploads) = 2
    /\ upload_result.results.successful_uploads[1].s3_key
         > upload_result.results.successful_uploads[2].s3_key
    /\ upload_result.results.total_size = 3

----------------------------------------------------------------------------
(* The configuration lookup against the stacks of the CDK app *)

\* C30: the stack name from_cloudformation queries for an environment is the
\* name under which the CDK app creates the hosting stack of that environment,
\* and the four outputs it reads are outputs that stack defines.
C30_QueriesTheStackTheAppCreates ==
    \A s \in cf_stacks :
        /\ stack_name(s.environment) = s.name
        /\ Range(OutputKeys) \subseteq s.outputs
====
